---- MODULE Spec2Model ----
(***************************************************************************)
(* Model of scripts/goose/fine-tune.py: the JSONL dataset loader, the      *)
(* Phi-3 prompt formatter, the fine-tuning orchestrator, the GGUF export   *)
(* adapter, the inference smoke-test and the command-line dispatcher.      *)
(*                                                                         *)
(* Text is a sequence of characters.  Each character is a one-element      *)
(* string, except that the role markers "<|system|>", "<|user|>",          *)
(* "<|assistant|>", "<|end|>", the literal "null" and the system prompt    *)
(* are kept as single atoms: no other character of the alphabet can form   *)
(* part of them, so substring search for a marker is a search for the atom.*)
(***************************************************************************)
EXTENDS Integers, Sequences, FiniteSets, TLC

\* ------------------------------------------------------------------ bounds
\* JSON values drawn as inputs: string length, array length, largest number
MaxStrLen == 1
MaxArrLen == 2
MaxNum == 1
\* directories read by a training run: files listed, lines in the whole directory
MaxFiles == 2
MaxLines == 2
\* directories given to the loader on its own
LoadMaxFiles == 2
LoadMaxLines == 3

\* --------------------------------------------------------------- alphabet
Q == "\""
BS == "\\"
NL == "\n"
SP == " "
SYSTEM_PROMPT == <<"SYSTEM_PROMPT">>
M_SYSTEM == "<|system|>"
M_USER == "<|user|>"
M_ASSISTANT == "<|assistant|>"
M_END == "<|end|>"
Whitespace == {SP, NL}
Digits == <<"0", "1", "2", "3", "4", "5", "6", "7", "8", "9">>
DigitSet == {Digits[i] : i \in 1..10}
DigitVal(c) == (CHOOSE i \in 1..10 : Digits[i] = c) - 1

\* ------------------------------------------------------------ JSON values
\* A value is <<tag, payload>>; an object's payload is its members <<key, value>>
\* in insertion order, as a Python dict keeps them.
JNull == <<"null", 0>>
JNum(n) == <<"num", n>>
JStr(s) == <<"str", s>>
JArr(xs) == <<"arr", xs>>
JObj(ps) == <<"obj", ps>>
Tag(v) == v[1]
Val(v) == v[2]

SeqsUpTo(S, n) == UNION {[1..k -> S] : k \in 0..n}

\* ---------------------------------------------- str methods used by the code
Contains(text, c) == \E i \in 1..Len(text) : text[i] = c

RECURSIVE LStrip(_)
LStrip(text) ==
  IF text # <<>> /\ Head(text) \in Whitespace THEN LStrip(Tail(text)) ELSE text

RECURSIVE RStrip(_)
RStrip(text) ==
  IF text # <<>> /\ text[Len(text)] \in Whitespace
  THEN RStrip(SubSeq(text, 1, Len(text) - 1))
  ELSE text

Strip(text) == RStrip(LStrip(text))

\* text.split(marker)[-1]: what follows the last occurrence of marker.
SplitLast(text, marker) ==
  LET idx == {i \in 1..Len(text) : text[i] = marker}
      last == CHOOSE i \in idx : \A j \in idx : j <= i
  IN IF idx = {} THEN text ELSE SubSeq(text, last + 1, Len(text))

\* ------------------------------------------------------------- json.dumps
RECURSIVE EscapeStr(_)
EscapeStr(s) ==
  IF s = <<>> THEN <<>>
  ELSE (IF Head(s) \in {Q, BS} THEN <<BS, Head(s)>> ELSE <<Head(s)>>)
       \o EscapeStr(Tail(s))

\* a string as json.dumps writes it
DumpsStr(s) == <<Q>> \o EscapeStr(s) \o <<Q>>

RECURSIVE DumpsNat(_)
DumpsNat(n) ==
  IF n < 10 THEN <<Digits[n + 1]>> ELSE DumpsNat(n \div 10) \o <<Digits[(n % 10) + 1]>>

RECURSIVE Dumps(_, _, _)
RECURSIVE DumpsItems(_, _, _)
RECURSIVE DumpsMembers(_, _, _)
\* json.dumps(v, separators=(itemSep, keySep))
Dumps(v, itemSep, keySep) ==
  CASE Tag(v) = "null" -> <<"null">>
    [] Tag(v) = "num" -> DumpsNat(Val(v))
    [] Tag(v) = "str" -> DumpsStr(Val(v))
    [] Tag(v) = "arr" -> <<"[">> \o DumpsItems(Val(v), itemSep, keySep) \o <<"]">>
    [] Tag(v) = "obj" -> <<"{">> \o DumpsMembers(Val(v), itemSep, keySep) \o <<"}">>

DumpsItems(xs, itemSep, keySep) ==
  IF xs = <<>> THEN <<>>
  ELSE Dumps(Head(xs), itemSep, keySep)
       \o (IF Len(xs) > 1 THEN itemSep ELSE <<>>)
       \o DumpsItems(Tail(xs), itemSep, keySep)

DumpsMembers(ps, itemSep, keySep) ==
  IF ps = <<>> THEN <<>>
  ELSE DumpsStr(Head(ps)[1]) \o keySep \o Dumps(Head(ps)[2], itemSep, keySep)
       \o (IF Len(ps) > 1 THEN itemSep ELSE <<>>)
       \o DumpsMembers(Tail(ps), itemSep, keySep)

\* ------------------------------------------------------------- json.loads
Fail == [ok |-> FALSE]
Ok(val, rest) == [ok |-> TRUE, v |-> val, rest |-> rest]

\* dict[k] = val: a repeated key keeps its place and takes the last value.
DictSet(ps, k, val) ==
  IF \E i \in 1..Len(ps) : ps[i][1] = k
  THEN [i \in 1..Len(ps) |-> IF ps[i][1] = k THEN <<k, val>> ELSE ps[i]]
  ELSE Append(ps, <<k, val>>)

RECURSIVE ParseStrBody(_, _)
ParseStrBody(text, acc) ==
  IF text = <<>> THEN Fail
  ELSE LET c == Head(text) IN
    CASE c = Q -> Ok(acc, Tail(text))
      [] c = BS ->
           IF Len(text) >= 2 /\ text[2] \in {Q, BS}
           THEN ParseStrBody(SubSeq(text, 3, Len(text)), Append(acc, text[2]))
           ELSE Fail
      [] c = NL -> Fail
      [] OTHER -> ParseStrBody(Tail(text), Append(acc, c))

RECURSIVE ParseDigits(_, _)
ParseDigits(text, acc) ==
  IF text # <<>> /\ Head(text) \in DigitSet
  THEN ParseDigits(Tail(text), acc * 10 + DigitVal(Head(text)))
  ELSE Ok(JNum(acc), text)

RECURSIVE ParseValue(_)
RECURSIVE ParseItems(_, _)
RECURSIVE ParseMembers(_, _)
ParseValue(text) ==
  IF text = <<>> THEN Fail
  ELSE LET c == Head(text) IN
    CASE c = "null" -> Ok(JNull, Tail(text))
      [] c = "0" -> Ok(JNum(0), Tail(text))
      [] c \in DigitSet \ {"0"} -> ParseDigits(text, 0)
      [] c = Q ->
           LET s == ParseStrBody(Tail(text), <<>>)
           IN IF s.ok THEN Ok(JStr(s.v), s.rest) ELSE Fail
      [] c = "[" ->
           LET body == LStrip(Tail(text))
           IN IF body # <<>> /\ Head(body) = "]"
              THEN Ok(JArr(<<>>), Tail(body))
              ELSE ParseItems(body, <<>>)
      [] c = "{" ->
           LET body == LStrip(Tail(text))
           IN IF body # <<>> /\ Head(body) = "}"
              THEN Ok(JObj(<<>>), Tail(body))
              ELSE ParseMembers(body, <<>>)
      [] OTHER -> Fail

\* text stands at the start of an array item
ParseItems(text, acc) ==
  LET r == ParseValue(text) IN
  IF ~r.ok THEN Fail
  ELSE LET after == LStrip(r.rest)
           items == Append(acc, r.v)
       IN IF after = <<>> THEN Fail
          ELSE CASE Head(after) = "," -> ParseItems(LStrip(Tail(after)), items)
                 [] Head(after) = "]" -> Ok(JArr(items), Tail(after))
                 [] OTHER -> Fail

\* text stands at the start of an object key
ParseMembers(text, acc) ==
  IF text = <<>> \/ Head(text) # Q THEN Fail
  ELSE LET k == ParseStrBody(Tail(text), <<>>) IN
    IF ~k.ok THEN Fail
    ELSE LET colon == LStrip(k.rest) IN
      IF colon = <<>> \/ Head(colon) # ":" THEN Fail
      ELSE LET r == ParseValue(LStrip(Tail(colon))) IN
        IF ~r.ok THEN Fail
        ELSE LET after == LStrip(r.rest)
                 members == DictSet(acc, k.v, r.v)
             IN IF after = <<>> THEN Fail
                ELSE CASE Head(after) = "," -> ParseMembers(LStrip(Tail(after)), members)
                       [] Head(after) = "}" -> Ok(JObj(members), Tail(after))
                       [] OTHER -> Fail

\* json.loads(text): [ok |-> TRUE, v |-> value], or [ok |-> FALSE] for JSONDecodeError
Loads(text) ==
  LET r == ParseValue(LStrip(text))
  IN IF r.ok /\ LStrip(r.rest) = <<>> THEN [ok |-> TRUE, v |-> r.v] ELSE Fail

\* Python's == on parsed values: dict equality ignores member order.
RECURSIVE PyEq(_, _)
PyEq(a, b) ==
  /\ Tag(a) = Tag(b)
  /\ CASE Tag(a) = "null" -> TRUE
       [] Tag(a) \in {"num", "str"} -> Val(a) = Val(b)
       [] Tag(a) = "arr" -> /\ Len(Val(a)) = Len(Val(b))
                         /\ \A i \in 1..Len(Val(a)) : PyEq(Val(a)[i], Val(b)[i])
       [] Tag(a) = "obj" -> /\ Len(Val(a)) = Len(Val(b))
                         /\ \A i \in 1..Len(Val(a)) : \E j \in 1..Len(Val(b)) :
                              Val(a)[i][1] = Val(b)[j][1] /\ PyEq(Val(a)[i][2], Val(b)[j][2])


\* dict.get(key, default) and dict[key] on an object's members
HasKey(obj, k) == \E i \in 1..Len(Val(obj)) : Val(obj)[i][1] = k
GetKey(obj, k) == Val(obj)[CHOOSE i \in 1..Len(Val(obj)) : Val(obj)[i][1] = k][2]
GetOr(obj, k, default) == IF HasKey(obj, k) THEN GetKey(obj, k) ELSE default

\* str(v) as an f-string renders it (strings, integers and None only)
PyStr(v) ==
  CASE Tag(v) = "str" -> Val(v)
    [] Tag(v) = "num" -> DumpsNat(Val(v))
    [] Tag(v) = "null" -> <<"None">>

\* ------------------------------------------------------------ input sets
K_PROMPT == <<"prompt">>
K_OUTPUT == <<"output">>
K_ELEMENTS == <<"elements">>
K_NAME == <<"name">>
StrChars == {"a", Q, M_ASSISTANT}
Strings == SeqsUpTo(StrChars, MaxStrLen)
Atoms == {JNull} \cup {JNum(n) : n \in 0..MaxNum} \cup {JStr(s) : s \in Strings}
Arrays == {JArr(xs) : xs \in SeqsUpTo(Atoms, MaxArrLen)}
Objects ==
  {JObj(<<>>)}
  \cup {JObj(<< <<k, val>> >>) : k \in {K_ELEMENTS, K_NAME}, val \in Atoms \cup Arrays}
  \cup {JObj(<< <<k1, v1>>, <<k2, v2>> >>) :
          k1 \in {K_ELEMENTS}, v1 \in Arrays, k2 \in {K_NAME}, v2 \in Atoms}
Outputs == Atoms \cup Arrays \cup Objects
Prompts == {<<"a">>, <<M_ASSISTANT, NL>>}
Example(p, o) == JObj(<< <<K_PROMPT, JStr(p)>>, <<K_OUTPUT, o>> >>)

\* ------------------------------------------------------------ configuration
TEST_PROMPTS == << <<"create a poll about favorite study spots">>,
                   <<"event signup with countdown timer">>,
                   <<"feedback form with results chart">> >>
Libs == {"unsloth", "datasets", "trl", "transformers"}
FT_IMPORTS == {"unsloth", "datasets", "trl", "transformers"}
TI_IMPORTS == {"unsloth"}

\* --------------------------------------------------------- prompt template
COMPACT_ITEM == <<",">>
COMPACT_KEY == <<":">>

\* format_for_training(example): the rendered text, or the exception raised
format_for_training(example) ==
  IF Tag(example) # "obj" THEN [ok |-> FALSE, err |-> "TypeError"]
  ELSE IF ~HasKey(example, K_PROMPT) \/ ~HasKey(example, K_OUTPUT)
  THEN [ok |-> FALSE, err |-> "KeyError"]
  ELSE [ok |-> TRUE,
        text |-> <<M_SYSTEM, NL>> \o SYSTEM_PROMPT \o <<NL, M_END, NL, M_USER, NL>>
                 \o PyStr(GetKey(example, K_PROMPT))
                 \o <<NL, M_END, NL, M_ASSISTANT, NL>>
                 \o Dumps(GetKey(example, K_OUTPUT), COMPACT_ITEM, COMPACT_KEY)
                 \o <<NL, M_END>>]

\* [format_for_training(ex) for ex in examples]
RECURSIVE FormatAll(_, _)
FormatAll(exs, acc) ==
  IF exs = <<>> THEN [ok |-> TRUE, texts |-> acc]
  ELSE LET r == format_for_training(Head(exs))
       IN IF r.ok THEN FormatAll(Tail(exs), Append(acc, r.text))
          ELSE [ok |-> FALSE, err |-> r.err]

\* the smoke-test's prompt, with the assistant turn left open
InferencePrompt(prompt) ==
  <<M_SYSTEM, NL>> \o SYSTEM_PROMPT \o <<NL, M_END, NL, M_USER, NL>>
  \o prompt \o <<NL, M_END, NL, M_ASSISTANT, NL>>

\* if "<|assistant|>" in response: response = response.split("<|assistant|>")[-1].strip()
ExtractAssistant(response) ==
  IF Contains(response, M_ASSISTANT)
  THEN Strip(SplitLast(response, M_ASSISTANT))
  ELSE response

\* ------------------------------------------------------------ dataset loader
VALIDATION == "validation"
JSONL == ".jsonl"
Names == { <<"a", JSONL>>, <<"b", JSONL>>,
           <<"a", "_", VALIDATION, JSONL>>, <<"notes", ".txt">> }
GoodLine1 == Dumps(Example(<<"a">>, JObj(<< <<K_ELEMENTS, JArr(<<>>)>> >>)),
                   COMPACT_ITEM, COMPACT_KEY) \o <<NL>>
GoodLine2 == <<SP>> \o Dumps(Example(<<"a", "a">>, JObj(<< <<K_ELEMENTS, JArr(<<JNum(0)>>)>> >>)),
                             <<",", SP>>, <<":", SP>>) \o <<NL>>
NoFieldLine == <<"{", "}", NL>>
BadLine == <<"{", Q, "prompt", Q, NL>>
LineSet == {<<NL>>, <<SP, NL>>, GoodLine1, GoodLine2, BadLine}
RunLineSet == LineSet \cup {NoFieldLine}

Injective(s) == \A i, j \in 1..Len(s) : s[i] = s[j] => i = j
\* the ways to cut n lines into k files, c[i] being the last line of file i
Cuts(k, n) ==
  IF k = 0 THEN (IF n = 0 THEN {<<>>} ELSE {})
  ELSE {c \in [1..k -> 0..n] : c[k] = n /\ \A i \in 1..(k - 1) : c[i] <= c[i + 1]}
MkDir(ns, ls, c) ==
  [i \in 1..Len(ns) |->
     [name |-> ns[i],
      lines |-> SubSeq(ls, (IF i = 1 THEN 0 ELSE c[i - 1]) + 1, c[i])]]
\* the names of a directory listing: distinct, in the order glob yields them
Listings(maxFiles) == {s \in SeqsUpTo(Names, maxFiles) : Injective(s)}

\* data_path.glob("*.jsonl")
GlobMatch(name) == name[Len(name)] = JSONL
Glob(d) == SelectSeq(d, LAMBDA f : GlobMatch(f.name))

\* (mutant) no file is taken for a validation file
IsValidationFileNever(name) == FALSE

\* "validation" in jsonl_file.name
IsValidationFile(name) == Contains(name, VALIDATION)

\* (mutant) only the empty string counts as blank
IsBlankLineUnstripped(line) == line = <<>>

\* if line.strip(): the line is read only when something is left of it
IsBlankLine(line) == Strip(line) = <<>>

\* (mutant) a line that does not parse is skipped
ParseLineSkipsMalformed(st, line) ==
  LET r == Loads(line)
  IN IF r.ok
     THEN [st EXCEPT !.examples = Append(@, r.v), !.parses = @ + 1]
     ELSE [st EXCEPT !.parses = @ + 1]

\* examples.append(json.loads(line)); a line that does not parse raises
ParseLine(st, line) ==
  LET r == Loads(line)
  IN IF r.ok
     THEN [st EXCEPT !.examples = Append(@, r.v), !.parses = @ + 1]
     ELSE [st EXCEPT !.ok = FALSE, !.parses = @ + 1]

RECURSIVE ReadLines(_, _)
ReadLines(lines, st) ==
  IF lines = <<>> \/ ~st.ok THEN st
  ELSE IF IsBlankLine(Head(lines)) THEN ReadLines(Tail(lines), st)
  ELSE ReadLines(Tail(lines), ParseLine(st, Head(lines)))

RECURSIVE ReadFiles(_, _)
ReadFiles(files, st) ==
  IF files = <<>> \/ ~st.ok THEN st
  ELSE IF IsValidationFile(Head(files).name) THEN ReadFiles(Tail(files), st)
  ELSE ReadFiles(Tail(files),
                 ReadLines(Head(files).lines,
                           [st EXCEPT !.opened = Append(@, Head(files).name)]))

NotLoaded == [ok |-> TRUE, examples |-> <<>>, opened |-> <<>>, parses |-> 0, reported |-> -1]

\* load_training_data(data_dir) on a directory holding d.  ok: it returned
\* examples, having printed their number (reported); ~ok: json.loads raised and
\* the local list examples was dropped.  opened and parses record the files
\* opened and the json.loads calls made.
load_training_data(d) ==
  LET st == ReadFiles(Glob(d), NotLoaded)
  IN IF st.ok THEN [st EXCEPT !.reported = Len(st.examples)] ELSE st

\* ================================================================== state
VARIABLES
  pc,         \* position of the run: "main", a step of fine_tune (ft_*) or of test_inference (ti_*), "done", "crashed"
  args,       \* the parsed command line
  started,    \* the collaborator calls made so far, in order
  completed,  \* those that returned normally
  examples,   \* fine_tune's examples
  malformed,  \* whether the directory read held a line json.loads cannot parse, in a file the loader includes
  dropped,    \* the loader's local list at the moment it raised
  formatted,  \* fine_tune's formatted
  dataset,    \* the dataset handed to the trainer
  precision,  \* fp16 / bf16 of the TrainingArguments
  saved,      \* what CONFIG.output_dir holds
  gguf,       \* whether the GGUF file was written
  out,        \* what was printed for the operator
  err,        \* the exception that ended the run, or "none"
  promptIdx,  \* test_inference's position in test_prompts
  response,   \* the decoded generator output for the current prompt
  dir,        \* (loader) the directory given to load_training_data
  loaded,     \* (loader) what the call did
  lpc,        \* (loader) "start" or "returned" / "raised"
  ex,         \* (formatter) the training example
  text,       \* (formatter) format_for_training(ex)
  segment,    \* (formatter) the assistant segment extracted from text
  parsed,     \* (formatter) json.loads(segment)
  fpc         \* (formatter) "start", "formatted", "extracted", "parsed"

runVars == <<pc, args, started, completed, examples, malformed, dropped, formatted,
             dataset, precision, saved, gguf, out, err, promptIdx, response>>
loadVars == <<dir, loaded, lpc>>
fmtVars == <<ex, text, segment, parsed, fpc>>
vars == <<runVars, loadVars, fmtVars>>

\* parser.parse_args(): three store_true flags and an optional --data-dir
DataDirArgs == {<<>>, <<"">>, <<"/data">>}
ArgSet == [local : BOOLEAN, export_gguf : BOOLEAN, test : BOOLEAN, data_dir : DataDirArgs]

RunIdle ==
  /\ pc = "main"
  /\ started = <<>>
  /\ completed = {}
  /\ examples = <<>>
  /\ malformed = FALSE
  /\ dropped = <<>>
  /\ formatted = <<>>
  /\ dataset = <<>>
  /\ precision = "unset"
  /\ saved = {}
  /\ gguf = FALSE
  /\ out = <<>>
  /\ err = "none"
  /\ promptIdx = 1
  /\ response = <<>>
LoadIdle == dir = <<>> /\ loaded = NotLoaded /\ lpc = "start"
FmtIdle ==
  /\ ex = Example(<<>>, JNull)
  /\ text = <<>>
  /\ segment = <<>>
  /\ parsed = Fail
  /\ fpc = "start"

\* ----------------------------------------------------------- control flow
Report(what, n) == <<what, n>>
Said(what) == \E i \in 1..Len(out) : out[i][1] = what

\* a collaborator call returns: the run goes on at next
Returns(step, next) ==
  /\ started' = Append(started, step)
  /\ completed' = completed \cup {step}
  /\ pc' = next
  /\ err' = err

\* (mutant) the exception is swallowed and the run goes on
RaisesSwallowed(step, next) ==
  /\ started' = Append(started, step)
  /\ completed' = completed
  /\ pc' = next
  /\ err' = err

\* a collaborator call raises: nothing catches it, the run ends there
Raises(step, next) ==
  /\ started' = Append(started, step)
  /\ completed' = completed
  /\ pc' = "crashed"
  /\ err' = "CollaboratorError"

\* an exception raised by the script's own expression ends the run
Crash(what) ==
  /\ pc' = "crashed"
  /\ err' = what

\* (mutant) --test is ignored
DispatchAlwaysTrains(a) == "ft_import"

\* main(): args.test picks the flow
Dispatch(a) == IF a.test THEN "ti_import" ELSE "ft_import"

Main ==
  /\ pc = "main"
  /\ pc' = Dispatch(args)
  /\ UNCHANGED <<args, started, completed, examples, malformed, dropped, formatted,
                 dataset, precision, saved, gguf, out, err, promptIdx, response>>
  /\ UNCHANGED <<loadVars, fmtVars>>

\* (mutant) the handler lacks its return
ImportFailedFallsThrough(message, next) ==
  /\ out' = Append(out, Report(message, 0))
  /\ pc' = next

\* except ImportError: print(...); return
ImportFailed(message, next) ==
  /\ out' = Append(out, Report(message, 0))
  /\ pc' = "done"

\* fine_tune: the four imports
FtImport ==
  /\ pc = "ft_import"
  /\ \E installed \in SUBSET Libs :
       IF FT_IMPORTS \subseteq installed
       THEN /\ out' = Append(out, Report("GOOSE SYSTEM - Fine-Tuning", 0))
            /\ pc' = "ft_from_pretrained"
       ELSE ImportFailed("Missing dependencies", "ft_from_pretrained")
  /\ UNCHANGED <<args, started, completed, examples, malformed, dropped, formatted,
                 dataset, precision, saved, gguf, err, promptIdx, response>>
  /\ UNCHANGED <<loadVars, fmtVars>>

\* a step of fine_tune that only calls a collaborator
FtCall(at, step, next) ==
  /\ pc = at
  /\ \/ Returns(step, next)
     \/ Raises(step, next)
  /\ UNCHANGED <<args, examples, malformed, dropped, formatted, dataset, precision,
                 saved, gguf, out, promptIdx, response>>
  /\ UNCHANGED <<loadVars, fmtVars>>

FtFromPretrained == FtCall("ft_from_pretrained", "from_pretrained", "ft_get_peft_model")
FtGetPeftModel == FtCall("ft_get_peft_model", "get_peft_model", "ft_load_data")

\* the directory holds, in a *.jsonl file whose name lacks "validation", a line
\* that is not blank and is not JSON
MalformedIn(d) ==
  \E i \in 1..Len(d) :
    /\ d[i].name[Len(d[i].name)] = ".jsonl"
    /\ \A k \in 1..Len(d[i].name) : d[i].name[k] # "validation"
    /\ \E j \in 1..Len(d[i].lines) :
         /\ \E k \in 1..Len(d[i].lines[j]) : d[i].lines[j][k] \notin {" ", "\n"}
         /\ ~Loads(d[i].lines[j]).ok

\* examples = load_training_data(data_dir): d is what the directory named by
\* args.data_dir (or the default one) holds when it is read
FtLoadData ==
  /\ pc = "ft_load_data"
  /\ \E ns \in Listings(MaxFiles), ls \in SeqsUpTo(RunLineSet, MaxLines) :
     \E c \in Cuts(Len(ns), Len(ls)) :
       LET d == MkDir(ns, ls, c)
           r == load_training_data(d)
       IN
       /\ started' = Append(started, "load_training_data")
       /\ malformed' = MalformedIn(d)
       /\ IF r.ok
          THEN /\ examples' = r.examples
               /\ out' = Append(out, Report("Loaded", r.reported))
               /\ completed' = completed \cup {"load_training_data"}
               /\ pc' = "ft_format"
               /\ UNCHANGED <<dropped, err>>
          ELSE /\ dropped' = r.examples
               /\ Crash("JSONDecodeError")
               /\ UNCHANGED <<examples, out, completed>>
  /\ UNCHANGED <<args, formatted, dataset, precision, saved, gguf, promptIdx, response>>
  /\ UNCHANGED <<loadVars, fmtVars>>

\* formatted = [{"text": format_for_training(ex)} for ex in examples]
FtFormat ==
  /\ pc = "ft_format"
  /\ LET r == FormatAll(examples, <<>>) IN
     /\ started' = Append(started, "format_for_training")
     /\ IF r.ok
        THEN /\ formatted' = r.texts
             /\ completed' = completed \cup {"format_for_training"}
             /\ pc' = "ft_dataset"
             /\ err' = err
        ELSE /\ Crash(r.err)
             /\ UNCHANGED <<formatted, completed>>
  /\ UNCHANGED <<args, examples, malformed, dropped, dataset, precision, saved, gguf,
                 out, promptIdx, response>>
  /\ UNCHANGED <<loadVars, fmtVars>>

\* dataset = Dataset.from_list(formatted)
FtDataset ==
  /\ pc = "ft_dataset"
  /\ \/ /\ Returns("Dataset.from_list", "ft_training_arguments")
        /\ dataset' = formatted
        /\ out' = Append(out, Report("Training on", Len(formatted)))
     \/ /\ Raises("Dataset.from_list", "ft_training_arguments")
        /\ UNCHANGED <<dataset, out>>
  /\ UNCHANGED <<args, examples, malformed, dropped, formatted, precision, saved, gguf,
                 promptIdx, response>>
  /\ UNCHANGED <<loadVars, fmtVars>>

\* TrainingArguments(..., fp16=not args.local, bf16=args.local, ...)
FtTrainingArguments ==
  /\ pc = "ft_training_arguments"
  /\ \/ /\ Returns("TrainingArguments", "ft_trainer")
        /\ precision' = IF args.local THEN "bf16" ELSE "fp16"
     \/ /\ Raises("TrainingArguments", "ft_trainer")
        /\ UNCHANGED precision
  /\ UNCHANGED <<args, examples, malformed, dropped, formatted, dataset, saved, gguf,
                 out, promptIdx, response>>
  /\ UNCHANGED <<loadVars, fmtVars>>

FtTrainer == FtCall("ft_trainer", "SFTTrainer", "ft_train")
FtTrain == FtCall("ft_train", "train", "ft_save_model")

\* model.save_pretrained(CONFIG["output_dir"])
FtSaveModel ==
  /\ pc = "ft_save_model"
  /\ \/ /\ Returns("model.save_pretrained", "ft_save_tokenizer")
        /\ saved' = saved \cup {"model"}
     \/ /\ Raises("model.save_pretrained", "ft_save_tokenizer")
        /\ UNCHANGED saved
  /\ UNCHANGED <<args, examples, malformed, dropped, formatted, dataset, precision, gguf,
                 out, promptIdx, response>>
  /\ UNCHANGED <<loadVars, fmtVars>>

\* tokenizer.save_pretrained(CONFIG["output_dir"]); print("Model saved to")
FtSaveTokenizer ==
  /\ pc = "ft_save_tokenizer"
  /\ \/ /\ Returns("tokenizer.save_pretrained", "ft_export")
        /\ saved' = saved \cup {"tokenizer"}
        /\ out' = Append(out, Report("Model saved to", 0))
     \/ /\ Raises("tokenizer.save_pretrained", "ft_export")
        /\ UNCHANGED <<saved, out>>
  /\ UNCHANGED <<args, examples, malformed, dropped, formatted, dataset, precision, gguf,
                 promptIdx, response>>
  /\ UNCHANGED <<loadVars, fmtVars>>

\* (mutant) export_gguf without its try/except
ExportFailedPropagates(step, next) ==
  /\ started' = Append(started, step)
  /\ completed' = completed
  /\ out' = out
  /\ pc' = "crashed"
  /\ err' = "CollaboratorError"
  /\ gguf' = gguf

\* export_gguf: except Exception as e: print(...): the failure stays inside
ExportFailed(step, next) ==
  /\ started' = Append(started, step)
  /\ completed' = completed
  /\ out' = Append(out, Report("GGUF export failed", 0))
  /\ pc' = next
  /\ err' = err
  /\ gguf' = gguf

\* if args.export_gguf: export_gguf(model, tokenizer)
FtExport ==
  /\ pc = "ft_export"
  /\ IF args.export_gguf
     THEN \/ /\ Returns("save_pretrained_gguf", "ft_complete")
             /\ gguf' = TRUE
             /\ out' = Append(out, Report("GGUF model saved to", 0))
          \/ ExportFailed("save_pretrained_gguf", "ft_complete")
     ELSE /\ pc' = "ft_complete"
          /\ UNCHANGED <<started, completed, gguf, out, err>>
  /\ UNCHANGED <<args, examples, malformed, dropped, formatted, dataset, precision,
                 saved, promptIdx, response>>
  /\ UNCHANGED <<loadVars, fmtVars>>

\* print("Fine-tuning complete!")
FtComplete ==
  /\ pc = "ft_complete"
  /\ out' = Append(out, Report("Fine-tuning complete!", 0))
  /\ pc' = "done"
  /\ UNCHANGED <<args, started, completed, examples, malformed, dropped, formatted,
                 dataset, precision, saved, gguf, err, promptIdx, response>>
  /\ UNCHANGED <<loadVars, fmtVars>>

\* --------------------------------------------------------- test_inference
TiImport ==
  /\ pc = "ti_import"
  /\ \E installed \in SUBSET Libs :
       IF TI_IMPORTS \subseteq installed
       THEN /\ out' = Append(out, Report("Loading fine-tuned model...", 0))
            /\ pc' = "ti_from_pretrained"
       ELSE ImportFailed("Missing unsloth", "ti_from_pretrained")
  /\ UNCHANGED <<args, started, completed, examples, malformed, dropped, formatted,
                 dataset, precision, saved, gguf, err, promptIdx, response>>
  /\ UNCHANGED <<loadVars, fmtVars>>

TiCall(at, step, next) ==
  /\ pc = at
  /\ \/ Returns(step, next)
     \/ Raises(step, next)
  /\ UNCHANGED <<args, examples, malformed, dropped, formatted, dataset, precision,
                 saved, gguf, out, promptIdx, response>>
  /\ UNCHANGED <<loadVars, fmtVars>>

TiFromPretrained == TiCall("ti_from_pretrained", "test.from_pretrained", "ti_for_inference")
TiForInference == TiCall("ti_for_inference", "for_inference", "ti_generate")

\* what the generator may say: JSON of every top-level shape, and text that is no JSON
ResponseValues ==
  Atoms \cup {JArr(<<>>), JObj(<<>>)}
  \cup {JObj(<< <<K_ELEMENTS, e>> >>) :
          e \in Atoms \cup {JArr([i \in 1..n |-> JNull]) : n \in 0..MaxArrLen}}
Completions ==
  {Dumps(val, COMPACT_ITEM, COMPACT_KEY) : val \in ResponseValues}
  \cup {<<>>, <<"a">>, <<"{", Q, "elements", Q>>}
\* decode(): the completion alone, or after the prompt with its markers left in
Decoded(prompt) ==
  Completions \cup {InferencePrompt(prompt) \o c \o <<NL>> : c \in Completions}

\* tokenizer(formatted_prompt), model.generate(...), tokenizer.decode(...)
TiGenerate ==
  /\ pc = "ti_generate"
  /\ \/ /\ Returns("generate", "ti_validate")
        /\ response' \in Decoded(TEST_PROMPTS[promptIdx])
     \/ /\ Raises("generate", "ti_validate")
        /\ UNCHANGED response
  /\ UNCHANGED <<args, examples, malformed, dropped, formatted, dataset, precision,
                 saved, gguf, out, promptIdx>>
  /\ UNCHANGED <<loadVars, fmtVars>>

\* len(parsed.get('elements', [])): the exception it raises, or "none"
ElementCountError(val) ==
  IF Tag(val) # "obj" THEN "AttributeError"
  ELSE IF Tag(GetOr(val, K_ELEMENTS, JArr(<<>>))) \in {"arr", "str", "obj"} THEN "none"
  ELSE "TypeError"
ElementCount(val) == Len(Val(GetOr(val, K_ELEMENTS, JArr(<<>>))))

\* the rest of the loop body: extract, json.loads, report; then the next prompt
TiValidate ==
  /\ pc = "ti_validate"
  /\ LET r == Loads(ExtractAssistant(response)) IN
     IF ~r.ok
     THEN /\ out' = Append(out, Report("Invalid JSON output", 0))
          /\ promptIdx' = promptIdx + 1
          /\ pc' = IF promptIdx = Len(TEST_PROMPTS) THEN "done" ELSE "ti_generate"
          /\ err' = err
     ELSE IF ElementCountError(r.v) = "none"
     THEN /\ out' = Append(out, Report("Valid JSON", ElementCount(r.v)))
          /\ promptIdx' = promptIdx + 1
          /\ pc' = IF promptIdx = Len(TEST_PROMPTS) THEN "done" ELSE "ti_generate"
          /\ err' = err
     ELSE /\ Crash(ElementCountError(r.v))
          /\ UNCHANGED <<out, promptIdx>>
  /\ UNCHANGED <<args, started, completed, examples, malformed, dropped, formatted,
                 dataset, precision, saved, gguf, response>>
  /\ UNCHANGED <<loadVars, fmtVars>>

Init ==
  /\ args \in ArgSet
  /\ RunIdle
  /\ LoadIdle
  /\ FmtIdle

Next ==
  \/ Main
  \/ FtImport
  \/ FtFromPretrained
  \/ FtGetPeftModel
  \/ FtLoadData
  \/ FtFormat
  \/ FtDataset
  \/ FtTrainingArguments
  \/ FtTrainer
  \/ FtTrain
  \/ FtSaveModel
  \/ FtSaveTokenizer
  \/ FtExport
  \/ FtComplete
  \/ TiImport
  \/ TiFromPretrained
  \/ TiForInference
  \/ TiGenerate
  \/ TiValidate

Spec == Init /\ [][Next]_vars

\* ------------------------------------------- the loader called on its own
LoadCall ==
  /\ lpc = "start"
  /\ loaded' = load_training_data(dir)
  /\ lpc' = IF loaded'.ok THEN "returned" ELSE "raised"
  /\ UNCHANGED <<dir, runVars, fmtVars>>

InitLoad ==
  /\ \E ns \in Listings(LoadMaxFiles), ls \in SeqsUpTo(LineSet, LoadMaxLines) :
     \E c \in Cuts(Len(ns), Len(ls)) : dir = MkDir(ns, ls, c)
  /\ loaded = NotLoaded
  /\ lpc = "start"
  /\ args = [local |-> FALSE, export_gguf |-> FALSE, test |-> FALSE, data_dir |-> <<>>]
  /\ RunIdle
  /\ FmtIdle

NextLoad == LoadCall

SpecLoad == InitLoad /\ [][NextLoad]_vars

\* ------------------ the formatter, then the smoke-test's extraction and parse
FmtRender ==
  /\ fpc = "start"
  /\ text' = format_for_training(ex).text
  /\ fpc' = "formatted"
  /\ UNCHANGED <<ex, segment, parsed, runVars, loadVars>>

FmtExtract ==
  /\ fpc = "formatted"
  /\ segment' = ExtractAssistant(text)
  /\ fpc' = "extracted"
  /\ UNCHANGED <<ex, text, parsed, runVars, loadVars>>

FmtParse ==
  /\ fpc = "extracted"
  /\ parsed' = Loads(segment)
  /\ fpc' = "parsed"
  /\ UNCHANGED <<ex, text, segment, runVars, loadVars>>

InitFmt ==
  /\ ex \in {Example(p, o) : p \in Prompts, o \in Outputs}
  /\ text = <<>>
  /\ segment = <<>>
  /\ parsed = Fail
  /\ fpc = "start"
  /\ args = [local |-> FALSE, export_gguf |-> FALSE, test |-> FALSE, data_dir |-> <<>>]
  /\ RunIdle
  /\ LoadIdle

NextFmt ==
  \/ FmtRender
  \/ FmtExtract
  \/ FmtParse

SpecFmt == InitFmt /\ [][NextFmt]_vars

\* ================================================================= claims
Started(step) == \E i \in 1..Len(started) : started[i] = step
FT_ORDER == <<"from_pretrained", "get_peft_model", "load_training_data",
              "format_for_training", "Dataset.from_list", "TrainingArguments",
              "SFTTrainer", "train", "model.save_pretrained",
              "tokenizer.save_pretrained", "save_pretrained_gguf">>
TI_STEPS == {"test.from_pretrained", "for_inference", "generate"}
FtSteps == {FT_ORDER[i] : i \in 1..Len(FT_ORDER)}
FtPcs == {"ft_import", "ft_from_pretrained", "ft_get_peft_model", "ft_load_data",
          "ft_format", "ft_dataset", "ft_training_arguments", "ft_trainer", "ft_train",
          "ft_save_model", "ft_save_tokenizer", "ft_export", "ft_complete"}
TiPcs == {"ti_import", "ti_from_pretrained", "ti_for_inference", "ti_generate",
          "ti_validate"}

\* C1: with no example loaded, fine_tune stops with a "no training data" error
\* before the trainer is built: the trainer is never built, and train never
\* called, on an empty dataset.
C1_EmptyDatasetNeverTrained ==
  (Started("SFTTrainer") \/ Started("train")) => dataset # <<>>

\* C2: whatever the generator's decoded output is, its validation is reported and
\* the loop goes on: a smoke-test run is never ended by the validation of an output.
C2_ValidationNeverEndsTheTest ==
  (args.test /\ pc = "crashed") => err = "CollaboratorError"

\* C3: when the export collaborator raises, the failure stays inside export_gguf:
\* the run is not aborted, the model and tokenizer persisted before are still in
\* output_dir, the completion report is what comes next, and it ends the run.
C3_ExportFailureContained ==
  (Started("save_pretrained_gguf") /\ "save_pretrained_gguf" \notin completed) =>
    /\ Said("GGUF export failed")
    /\ err = "none"
    /\ saved = {"model", "tokenizer"}
    /\ pc \in {"ft_complete", "done"}
    /\ pc = "ft_complete" => ENABLED FtComplete
    /\ pc = "done" => out[Len(out)] = Report("Fine-tuning complete!", 0)
C3_Witness ==
  /\ pc = "done"
  /\ Said("GGUF export failed")
  /\ Said("Fine-tuning complete!")
  /\ saved = {"model", "tokenizer"}

\* C4: when an included file holds a non-blank line that is not JSON, the load
\* aborts with the parse error and nothing of it is used: no example list, partial
\* or not, reaches the formatter, the dataset or the trainer.
C4_NoPartialDataset ==
  malformed =>
    /\ pc = "crashed"
    /\ err = "JSONDecodeError"
    /\ examples = <<>>
    /\ formatted = <<>>
    /\ dataset = <<>>
    /\ started[Len(started)] = "load_training_data"
    /\ "load_training_data" \notin completed
C4_Witness ==
  /\ malformed
  /\ pc = "crashed"
  /\ dropped # <<>>

\* The loader's contract, stated on the directory alone.
IncludedFiles(d) ==
  {i \in 1..Len(d) :
     /\ d[i].name[Len(d[i].name)] = ".jsonl"
     /\ \A k \in 1..Len(d[i].name) : d[i].name[k] # "validation"}
ValidationFiles(d) ==
  {i \in 1..Len(d) : \E k \in 1..Len(d[i].name) : d[i].name[k] = "validation"}
NonBlankLines(f) ==
  {j \in 1..Len(f.lines) : \E k \in 1..Len(f.lines[j]) : f.lines[j][k] \notin {" ", "\n"}}
NonBlankPlaces(d) ==
  UNION {{<<i, j>> : j \in NonBlankLines(d[i])} : i \in IncludedFiles(d)}
NonBlankCount(d) == Cardinality(NonBlankPlaces(d))
\* where the example of line j of file i stands in the returned list
PlaceOf(d, i, j) ==
  Cardinality({p \in NonBlankPlaces(d) : p[1] < i \/ (p[1] = i /\ p[2] <= j)})

\* C5: no file whose name contains "validation" is opened or parsed, so none of
\* its lines becomes an example and a malformed line in one cannot abort the load.
C5_ValidationFilesSkipped ==
  lpc # "start" =>
    /\ \A n \in 1..Len(loaded.opened) : \A i \in ValidationFiles(dir) :
         loaded.opened[n] # dir[i].name
    /\ lpc = "raised" => MalformedIn(dir)
    /\ lpc = "returned" => Len(loaded.examples) = NonBlankCount(dir)
C5_Witness ==
  /\ lpc = "returned"
  /\ loaded.examples # <<>>
  /\ \E i \in ValidationFiles(dir) : \E j \in NonBlankLines(dir[i]) :
       ~Loads(dir[i].lines[j]).ok

\* C6: a training run makes its calls in the one fixed order, each at most once
\* and each only after the one before returned; model and tokenizer are persisted
\* only after train returned, and a call that fails is the run's last.
C6_StepsInOrder ==
  ~args.test =>
    /\ Len(started) <= Len(FT_ORDER)
    /\ \A i \in 1..Len(started) :
         /\ started[i] = FT_ORDER[i]
         /\ i > 1 => started[i - 1] \in completed
    /\ completed \subseteq {started[i] : i \in 1..Len(started)}
    /\ "model" \in saved => "train" \in completed
    /\ "tokenizer" \in saved => "model.save_pretrained" \in completed
    /\ gguf => "tokenizer.save_pretrained" \in completed
    /\ pc = "crashed" => started # <<>> /\ started[Len(started)] \notin completed
C6_Witness ==
  /\ ~args.test
  /\ pc = "crashed"
  /\ started = SubSeq(FT_ORDER, 1, 8)
  /\ "train" \notin completed
  /\ saved = {}

\* C7: what follows the last "<|assistant|>" of a rendered example, stripped as
\* the smoke-test strips it, parses back to a value equal to the example's output.
C7_RoundTrip ==
  fpc = "parsed" => parsed.ok /\ PyEq(parsed.v, GetKey(ex, K_OUTPUT))

\* Where the round trip breaks: the extracted text still ends with the end-of-turn
\* marker, so json.loads always rejects it; the formatter's part is sound, since
\* without that trailing newline and "<|end|>" the text is the compact
\* serialisation of the output and parses back to it, as long as the serialised
\* output holds no "<|assistant|>" for the split to land on.
SegmentKeepsEndMarker ==
  LET output == GetKey(ex, K_OUTPUT)
      n == Len(segment)
      body == SubSeq(segment, 1, n - 2)
  IN /\ fpc \in {"extracted", "parsed"} =>
          /\ n >= 2
          /\ SubSeq(segment, n - 1, n) = <<"\n", "<|end|>">>
          /\ (\A k \in 1..Len(Dumps(output, <<",">>, <<":">>)) :
                 Dumps(output, <<",">>, <<":">>)[k] # "<|assistant|>")
             => /\ body = Dumps(output, <<",">>, <<":">>)
                /\ Loads(body).ok
                /\ PyEq(Loads(body).v, output)
     /\ fpc = "parsed" => ~parsed.ok

\* C8: when a needed library cannot be imported, the flow says so and returns:
\* no collaborator is called, no data is read, nothing is saved or exported,
\* nothing else is printed.
C8_MissingDependencyEndsRun ==
  (Said("Missing dependencies") \/ Said("Missing unsloth")) =>
    /\ pc = "done"
    /\ err = "none"
    /\ started = <<>>
    /\ examples = <<>>
    /\ dataset = <<>>
    /\ saved = {}
    /\ ~gguf
    /\ Len(out) = 1
C8_Witness ==
  /\ pc = "done"
  /\ ~args.test
  /\ Said("Missing dependencies")

\* C9: main runs one flow only, picked by --test: with --test nothing of the
\* training run happens, without it nothing of the smoke-test; the export is
\* attempted only in a training run with --export-gguf, after model and
\* tokenizer were persisted.
C9_OneFlow ==
  /\ args.test =>
       /\ pc \in TiPcs \cup {"main", "done", "crashed"}
       /\ \A i \in 1..Len(started) : started[i] \in TI_STEPS
       /\ saved = {} /\ ~gguf /\ dataset = <<>> /\ examples = <<>>
  /\ ~args.test =>
       /\ pc \in FtPcs \cup {"main", "done", "crashed"}
       /\ \A i \in 1..Len(started) : started[i] \in FtSteps
       /\ promptIdx = 1 /\ response = <<>>
  /\ Started("save_pretrained_gguf") =>
       /\ ~args.test
       /\ args.export_gguf
       /\ saved = {"model", "tokenizer"}
C9_Witness ==
  /\ args.test
  /\ args.export_gguf
  /\ pc = "done"
  /\ promptIdx = Len(TEST_PROMPTS) + 1

\* C10: when every non-blank line of the included files parses, the loader returns
\* one example per such line and nothing else, file after file in listing order
\* and line after line within a file; blank lines are not parsed.
C10_OneExamplePerLine ==
  (lpc # "start" /\ ~MalformedIn(dir)) =>
    /\ lpc = "returned"
    /\ Len(loaded.examples) = NonBlankCount(dir)
    /\ loaded.parses = NonBlankCount(dir)
    /\ loaded.reported = NonBlankCount(dir)
    /\ \A i \in IncludedFiles(dir) : \A j \in NonBlankLines(dir[i]) :
         loaded.examples[PlaceOf(dir, i, j)] = Loads(dir[i].lines[j]).v
C10_Witness ==
  /\ lpc = "returned"
  /\ Cardinality(IncludedFiles(dir)) = 2
  /\ \A i \in IncludedFiles(dir) : NonBlankLines(dir[i]) # {}
  /\ \E i \in IncludedFiles(dir) : Len(dir[i].lines) > Cardinality(NonBlankLines(dir[i]))
  /\ loaded.examples[1] # loaded.examples[2]
====
